---- MODULE Spec2Model ----
(***************************************************************************)
(* Model of journal/send.go: the process-wide journald connection, the     *)
(* field and entry encoder, and Send with its staged-file fallback.        *)
(*                                                                         *)
(* Strings are sequences of byte values (ASCII only), so that the          *)
(* length-prefixed form, which mixes text with raw length bytes, is one    *)
(* sequence of numbers.                                                    *)
(***************************************************************************)
EXTENDS Integers, Sequences, FiniteSets, TLC

\* ------------------------------------------------------------- bounds
\* Send calls made by the process in one behaviour.
MaxSends == 2
\* Largest caller-supplied mapping drawn for the encoder specification.
MaxFields == 2
\* Length of the long multi-line value (needs two length bytes).
LongLen == 258

\* ------------------------------------------------------------- bytes
NL == 10
EQ == 61
US == 95
MINUS == 45
ZERO == 48

IsUpper(c) == 65 <= c /\ c <= 90
IsDigit(c) == 48 <= c /\ c <= 57

\* "PRIORITY" and "MESSAGE"
PRIORITY == <<80, 82, 73, 79, 82, 73, 84, 89>>
MESSAGE == <<77, 69, 83, 83, 65, 71, 69>>

\* The eight named priorities.
PriEmerg == 0
PriAlert == 1
PriCrit == 2
PriErr == 3
PriWarning == 4
PriNotice == 5
PriInfo == 6
PriDebug == 7

\* A value no variable holds as a byte string (bytes are 0..255).
Null == <<-1>>

\* ------------------------------------------------------------- pure helpers
\* strings.ContainsRune(value, '\n')
ContainsRune(value, c) == \E i \in 1..Len(value) : value[i] = c

\* strconv.Itoa
RECURSIVE Digits(_)
Digits(n) == IF n < 10 THEN <<ZERO + n>> ELSE Digits(n \div 10) \o <<ZERO + (n % 10)>>

\* Priorities outside 0..7 clamped into the range.
ItoaClamped(n) == Digits(IF n < 0 THEN 0 ELSE IF n > 7 THEN 7 ELSE n)

Itoa(n) == IF n < 0 THEN <<MINUS>> \o Digits(0 - n) ELSE Digits(n)

\* n >> (8*k)
RECURSIVE Shr8(_, _)
Shr8(n, k) == IF k = 0 THEN n ELSE Shr8(n \div 256, k - 1)

\* toBytes: b[i] = byte(n >> (i*8)) for i = 0..7
toBytes(n) == [i \in 1..8 |-> Shr8(n, i - 1) % 256]

\* The loop of validVarName; Go parses  a && b || c || d  as  (a && b) || c || d.
RECURSIVE validLoop(_, _, _)
validLoop(name, i, valid) ==
    IF i > Len(name) THEN valid
    ELSE validLoop(name, i + 1,
                   (valid /\ IsUpper(name[i])) \/ IsDigit(name[i]) \/ name[i] = US)

\* validVarName indexes name[0] before anything else: an empty name panics
\* (index out of range).
validVarNamePanics(name) == Len(name) = 0

validVarName(name) == validLoop(name, 1, name[1] # US)

\* journalError: the text with the fixed prefix; the caller of this operator
\* both appends it to the diagnostic stream and (in Send) returns it.
journalError(s) == <<"journal error: ", s>>

InvalidNameText == "variable name contains invalid character, ignoring"
NotConnectedText == "could not connect to journald socket"
NonUnixText == "can't send file through non-Unix connection"

\* The bytes appendVariable writes for one pair.
fieldBytes(name, value) ==
    IF ContainsRune(value, NL)
    THEN name \o <<NL>> \o toBytes(Len(value)) \o value \o <<NL>>
    ELSE name \o <<EQ>> \o value \o <<NL>>

\* appendVariable on a writer state w = [buf, diag, panicked].
appendVariable(w, name, value) ==
    IF validVarNamePanics(name) THEN [w EXCEPT !.panicked = TRUE]
    ELSE LET w1 == IF ~validVarName(name)
                   THEN [w EXCEPT !.diag = Append(@, journalError(InvalidNameText))]
                   ELSE w
         IN  [w1 EXCEPT !.buf = @ \o fieldBytes(name, value)]

\* ------------------------------------------------------------- inputs
Threads == {1, 2}
\* The threads that call Send under Spec and EncSpec.
Callers == {1}

\* Field names: "", "_S", "A", "a1", "A=B", "MESSAGE", "PRIORITY".
Names == {<<>>, <<95, 83>>, <<65>>, <<97, 49>>, <<65, 61, 66>>, MESSAGE, PRIORITY}
\* Field values: "v", "x\ny", "".
Values == {<<118>>, <<120, 10, 121>>, <<>>}
\* A multi-line value whose length needs two length bytes.
LongValue == [i \in 1..LongLen |-> IF i = 2 THEN NL ELSE 120]
\* Messages: "M", "a\nb", the long value.
Messages == {<<77>>, <<97, 10, 98>>, LongValue}
Priorities ==
    {-1, PriEmerg, PriAlert, PriCrit, PriErr, PriWarning, PriNotice, PriInfo, PriDebug, 10}

VarMaps(names, values, n) ==
    UNION {[K -> values] : K \in {S \in SUBSET names : Cardinality(S) <= n}}

\* Arguments of Send drawn for the encoder specification.
EncArgs ==
    [message : Messages, priority : Priorities, vars : VarMaps(Names, Values, MaxFields)]

\* Arguments of Send drawn for the transport specification: the message
\* "a\nb" at priority PriErr with no field, {A: v}, {A: v, B1: v} or {"": v}.
SendArgs ==
    [message : {<<97, 10, 98>>},
     priority : {PriErr},
     vars : {[k \in K |-> <<118>>] : K \in {{}, {<<65>>}, {<<65>>, <<66, 49>>}, {<<>>}}}]

\* Arguments of Send drawn for the concurrent specification: the message
\* "a\nb" at priority PriErr with no field or with {A: v}.
ConcArgs ==
    [message : {<<97, 10, 98>>},
     priority : {PriErr},
     vars : {[k \in K |-> <<118>>] : K \in {{}, {<<65>>}}}]

\* What net.Dial leaves in conn: nil, a *net.UnixConn, or (the case line 70
\* guards against) some other net.Conn.
ConnKinds == {"nil", "UnixConn", "OtherConn"}

\* Errors of the direct write, by what the two type assertions of
\* isSocketSpaceError see: is it a *net.OpError, is its Err a syscall.Errno.
NoErr == [opErr |-> FALSE, errno |-> FALSE, text |-> ""]
WriteErrors ==
    {[opErr |-> TRUE, errno |-> TRUE, text |-> "EMSGSIZE"],
     [opErr |-> TRUE, errno |-> TRUE, text |-> "ENOBUFS"],
     [opErr |-> TRUE, errno |-> TRUE, text |-> "ECONNREFUSED"],
     [opErr |-> TRUE, errno |-> FALSE, text |-> "use of closed network connection"],
     [opErr |-> FALSE, errno |-> FALSE, text |-> "short write"]}

\* Every *net.OpError taken for a socket-space error.
isSocketSpaceErrorAny(e) == e.opErr

isSocketSpaceError(e) ==
    IF ~e.opErr THEN FALSE
    ELSE IF ~e.errno THEN FALSE
    ELSE e.text = "EMSGSIZE" \/ e.text = "ENOBUFS"

NoArgs == [message |-> <<>>, priority |-> 0, vars |-> <<>>]
Files == 1..MaxSends

\* ------------------------------------------------------------- state
VARIABLES
    conn,      \* the package variable conn
    pc,        \* each thread's position in Send
    args,      \* the arguments of the thread's current Send
    rest,      \* keys of vars the range loop has not yet visited
    data,      \* unread bytes of the bytes.Buffer data
    diag,      \* diagnostics the current Send has written to os.Stderr
    last,      \* the latest appendVariable call: its arguments and the writer before it
    enc,       \* the buffer as handed to the first io.Copy (line 55)
    prev,      \* enc of the previous Send, when this Send repeats its arguments
    err,       \* the error of the direct write
    ret,       \* what Send returned: <<>> while running
    file,      \* the staging file of the current Send (0: none)
    ops,       \* system calls the current Send has made, in order
    id,        \* which Send call of the process the thread is in
    prevRet,   \* what the thread's previous Send returned
    rights,    \* the descriptor number read at line 66 (0: none)
    calls,     \* Send calls started
    nextFile,  \* next staging file to be created
    shm,       \* staging files that still have a name in /dev/shm
    content,   \* bytes of each staging file
    fds,       \* staging files the process holds an open descriptor of
    fdnum,     \* the descriptor number each staging file was opened as
    inbox      \* what the daemon received on the socket, in order

vars == <<conn, pc, args, rest, data, diag, last, enc, prev, err, ret, file, ops, id,
          prevRet, rights, calls, nextFile, shm, content, fds, fdnum, inbox>>

local == <<args, rest, data, diag, last, enc, prev, err, ret, file, ops, id, prevRet, rights>>
env == <<nextFile, shm, content, fds, fdnum, inbox>>

RetNil == <<"nil">>
RetPanic == <<"panic">>

Enabled == conn # "nil"

InitLocal ==
    /\ args = [t \in Threads |-> NoArgs]
    /\ rest = [t \in Threads |-> {}]
    /\ data = [t \in Threads |-> <<>>]
    /\ diag = [t \in Threads |-> <<>>]
    /\ last = [t \in Threads |-> <<>>]
    /\ enc = [t \in Threads |-> Null]
    /\ prev = [t \in Threads |-> Null]
    /\ err = [t \in Threads |-> NoErr]
    /\ ret = [t \in Threads |-> <<>>]
    /\ file = [t \in Threads |-> 0]
    /\ ops = [t \in Threads |-> <<>>]
    /\ id = [t \in Threads |-> 0]
    /\ prevRet = [t \in Threads |-> <<>>]
    /\ rights = [t \in Threads |-> 0]

InitEnv ==
    /\ nextFile = 1
    /\ shm = {}
    /\ content = [f \in Files |-> <<>>]
    /\ fds = {}
    /\ fdnum = [f \in Files |-> 0]
    /\ inbox = <<>>

\* The state after init(): whatever net.Dial returned is in conn.
Init ==
    /\ conn \in ConnKinds
    /\ pc = [t \in Threads |-> "idle"]
    /\ calls = 0
    /\ InitLocal
    /\ InitEnv

\* ------------------------------------------------------------- Send
\* Send returns r from thread t.
Return(t, r) ==
    /\ pc' = [pc EXCEPT ![t] = "done"]
    /\ ret' = [ret EXCEPT ![t] = r]

\* return journalError(s): the diagnostic is written, then the error returned.
Fail(t, s) ==
    /\ diag' = [diag EXCEPT ![t] = Append(@, journalError(s))]
    /\ Return(t, journalError(s))

\* Send entered without the test of conn.
EnterUnchecked(t, a, again) ==
    /\ pc[t] \in {"idle", "done"}
    /\ calls < MaxSends
    /\ calls' = calls + 1
    /\ args' = [args EXCEPT ![t] = a]
    /\ prev' = [prev EXCEPT ![t] = IF again THEN enc[t] ELSE Null]
    /\ rest' = [rest EXCEPT ![t] = DOMAIN a.vars]
    /\ data' = [data EXCEPT ![t] = <<>>]
    /\ last' = [last EXCEPT ![t] = <<>>]
    /\ enc' = [enc EXCEPT ![t] = Null]
    /\ err' = [err EXCEPT ![t] = NoErr]
    /\ file' = [file EXCEPT ![t] = 0]
    /\ ops' = [ops EXCEPT ![t] = <<>>]
    /\ id' = [id EXCEPT ![t] = calls + 1]
    /\ prevRet' = [prevRet EXCEPT ![t] = ret[t]]
    /\ rights' = [rights EXCEPT ![t] = 0]
    /\ diag' = [diag EXCEPT ![t] = <<>>]
    /\ pc' = [pc EXCEPT ![t] = "priority"]
    /\ ret' = [ret EXCEPT ![t] = <<>>]
    /\ UNCHANGED <<conn, env>>

\* A Send that fails at once when the thread's previous Send returned an error.
EnterSticky(t, a, again) ==
    /\ pc[t] \in {"idle", "done"}
    /\ calls < MaxSends
    /\ calls' = calls + 1
    /\ args' = [args EXCEPT ![t] = a]
    /\ prev' = [prev EXCEPT ![t] = IF again THEN enc[t] ELSE Null]
    /\ rest' = [rest EXCEPT ![t] = DOMAIN a.vars]
    /\ data' = [data EXCEPT ![t] = <<>>]
    /\ last' = [last EXCEPT ![t] = <<>>]
    /\ enc' = [enc EXCEPT ![t] = Null]
    /\ err' = [err EXCEPT ![t] = NoErr]
    /\ file' = [file EXCEPT ![t] = 0]
    /\ ops' = [ops EXCEPT ![t] = <<>>]
    /\ id' = [id EXCEPT ![t] = calls + 1]
    /\ prevRet' = [prevRet EXCEPT ![t] = ret[t]]
    /\ rights' = [rights EXCEPT ![t] = 0]
    /\ IF conn = "nil" \/ Len(ret[t]) = 2
       THEN /\ diag' = [diag EXCEPT ![t] = <<journalError(NotConnectedText)>>]
            /\ Return(t, journalError(NotConnectedText))
       ELSE /\ diag' = [diag EXCEPT ![t] = <<>>]
            /\ pc' = [pc EXCEPT ![t] = "priority"]
            /\ ret' = [ret EXCEPT ![t] = <<>>]
    /\ UNCHANGED <<conn, env>>

\* Lines 43-48: Send is entered with arguments a; a nil conn ends it at once.
Enter(t, a, again) ==
    /\ pc[t] \in {"idle", "done"}
    /\ calls < MaxSends
    /\ calls' = calls + 1
    /\ args' = [args EXCEPT ![t] = a]
    /\ prev' = [prev EXCEPT ![t] = IF again THEN enc[t] ELSE Null]
    /\ rest' = [rest EXCEPT ![t] = DOMAIN a.vars]
    /\ data' = [data EXCEPT ![t] = <<>>]
    /\ last' = [last EXCEPT ![t] = <<>>]
    /\ enc' = [enc EXCEPT ![t] = Null]
    /\ err' = [err EXCEPT ![t] = NoErr]
    /\ file' = [file EXCEPT ![t] = 0]
    /\ ops' = [ops EXCEPT ![t] = <<>>]
    /\ id' = [id EXCEPT ![t] = calls + 1]
    /\ prevRet' = [prevRet EXCEPT ![t] = ret[t]]
    /\ rights' = [rights EXCEPT ![t] = 0]
    /\ IF conn = "nil"
       THEN /\ diag' = [diag EXCEPT ![t] = <<journalError(NotConnectedText)>>]
            /\ Return(t, journalError(NotConnectedText))
       ELSE /\ diag' = [diag EXCEPT ![t] = <<>>]
            /\ pc' = [pc EXCEPT ![t] = "priority"]
            /\ ret' = [ret EXCEPT ![t] = <<>>]
    /\ UNCHANGED <<conn, env>>

Send(t) == \E a \in SendArgs : Enter(t, a, FALSE)

\* The caller calls Send again with the arguments of its previous call.
SendAgain(t) == pc[t] = "done" /\ Enter(t, args[t], TRUE)

\* One appendVariable(data, name, value) of thread t, then on to pc `next`;
\* a panic of validVarName unwinds Send.
Append1(t, name, value, next) ==
    LET w0 == [buf |-> data[t], diag |-> diag[t], panicked |-> FALSE]
        w == appendVariable(w0, name, value)
    IN  /\ last' = [last EXCEPT ![t] = <<[name |-> name, value |-> value, w |-> w0]>>]
        /\ data' = [data EXCEPT ![t] = w.buf]
        /\ diag' = [diag EXCEPT ![t] = w.diag]
        /\ IF w.panicked
           THEN /\ Return(t, RetPanic)
                /\ enc' = enc
           ELSE /\ pc' = [pc EXCEPT ![t] = next]
                /\ ret' = ret
                /\ enc' = [enc EXCEPT ![t] = IF next = "write" THEN w.buf ELSE @]

\* The PRIORITY field left out.
EncodePrioritySkipped(t) ==
    /\ pc[t] = "priority"
    /\ pc' = [pc EXCEPT ![t] = "message"]
    /\ UNCHANGED <<conn, calls, env, args, rest, prev, prevRet, rights, id, err, file, ops,
                   last, data, diag, ret, enc>>

\* Line 49
EncodePriority(t) ==
    /\ pc[t] = "priority"
    /\ Append1(t, PRIORITY, Itoa(args[t].priority), "message")
    /\ UNCHANGED <<conn, calls, env, args, rest, prev, prevRet, rights, id, err, file, ops>>

\* Line 50 (and the loop's exit when vars is empty)
EncodeMessage(t) ==
    /\ pc[t] = "message"
    /\ Append1(t, MESSAGE, args[t].message, IF rest[t] = {} THEN "write" ELSE "fields")
    /\ UNCHANGED <<conn, calls, env, args, rest, prev, prevRet, rights, id, err, file, ops>>

\* Lines 51-53: one iteration of the range over the map, which visits the
\* keys in an order the runtime chooses.
EncodeField(t) ==
    /\ pc[t] = "fields"
    /\ \E k \in rest[t] :
          /\ rest' = [rest EXCEPT ![t] = @ \ {k}]
          /\ Append1(t, k, args[t].vars[k], IF rest[t] = {k} THEN "write" ELSE "fields")
    /\ UNCHANGED <<conn, calls, env, args, prev, prevRet, rights, id, err, file, ops>>

Op(t, name) == ops' = [ops EXCEPT ![t] = Append(@, name)]

\* Line 55, success: the whole buffer leaves as one datagram and is drained.
WriteOk(t) ==
    /\ pc[t] = "write"
    /\ Op(t, "write")
    /\ inbox' = Append(inbox, [kind |-> "datagram", body |-> data[t], file |-> 0, from |-> t, call |-> id[t]])
    /\ data' = [data EXCEPT ![t] = <<>>]
    /\ Return(t, RetNil)
    /\ UNCHANGED <<conn, calls, args, rest, diag, last, enc, prev, prevRet, rights, id, err, file,
                   nextFile, fdnum, shm, content, fds>>

\* A failed write that consumed the first byte of the buffer.
WriteFailConsuming(t, e) ==
    /\ pc[t] = "write"
    /\ Op(t, "write")
    /\ err' = [err EXCEPT ![t] = e]
    /\ data' = [data EXCEPT ![t] = Tail(@)]
    /\ IF isSocketSpaceError(e)
       THEN /\ pc' = [pc EXCEPT ![t] = "tempfile"]
            /\ UNCHANGED <<ret, diag>>
       ELSE Fail(t, e.text)
    /\ UNCHANGED <<conn, calls, args, rest, last, enc, prev, prevRet, rights, id, file, env>>

\* Lines 55-56, 74-75: the write fails, nothing is written (a datagram is
\* sent whole or not at all), so the buffer keeps every byte.
WriteFail(t, e) ==
    /\ pc[t] = "write"
    /\ Op(t, "write")
    /\ err' = [err EXCEPT ![t] = e]
    /\ IF isSocketSpaceError(e)
       THEN /\ pc' = [pc EXCEPT ![t] = "tempfile"]
            /\ UNCHANGED <<ret, diag>>
       ELSE Fail(t, e.text)
    /\ UNCHANGED <<conn, calls, args, rest, data, last, enc, prev, prevRet, rights, id, file, env>>

DirectWrite(t) == WriteOk(t) \/ \E e \in WriteErrors : WriteFail(t, e)

\* The file that descriptor number n refers to now (0: the number is closed).
Referent(n) ==
    IF \E f \in fds : fdnum[f] = n THEN CHOOSE f \in fds : fdnum[f] = n ELSE 0

\* open(2) returns the lowest descriptor number that is not open.
FreeFd == CHOOSE n \in 1..(Cardinality(fds) + 1) :
              /\ Referent(n) = 0
              /\ \A m \in 1..(n - 1) : Referent(m) # 0

\* Lines 57-60, 134-137: ioutil.TempFile creates a named file in /dev/shm
\* and opens it, or fails.
TempFileOk(t) ==
    /\ pc[t] = "tempfile"
    /\ Op(t, "tempfile")
    /\ file' = [file EXCEPT ![t] = nextFile]
    /\ nextFile' = nextFile + 1
    /\ shm' = shm \cup {nextFile}
    /\ fds' = fds \cup {nextFile}
    /\ fdnum' = [fdnum EXCEPT ![nextFile] = FreeFd]
    /\ content' = [content EXCEPT ![nextFile] = <<>>]
    /\ pc' = [pc EXCEPT ![t] = "unlink"]
    /\ UNCHANGED <<conn, calls, args, rest, data, diag, last, enc, prev, prevRet, rights, id, err, ret, inbox>>

TempFileFail(t) ==
    /\ pc[t] = "tempfile"
    /\ Op(t, "tempfile")
    /\ Fail(t, "tempfile failed")
    /\ UNCHANGED <<conn, calls, args, rest, data, last, enc, prev, prevRet, rights, id, err, file, env>>

\* Lines 138-142: syscall.Unlink's result is dropped; the test that follows
\* reads err of TempFile, which is nil here, so tempFd returns the file
\* whether or not the name was removed.
UnlinkDone(t, removed) ==
    /\ shm' = IF removed THEN shm \ {file[t]} ELSE shm
    /\ pc' = [pc EXCEPT ![t] = "stagewrite"]

Unlink(t) ==
    /\ pc[t] = "unlink"
    /\ Op(t, "unlink")
    /\ (UnlinkDone(t, TRUE) \/ UnlinkDone(t, FALSE))
    /\ UNCHANGED <<conn, calls, args, rest, data, diag, last, enc, prev, prevRet, rights, id, err, ret, file,
                   nextFile, fdnum, content, fds, inbox>>

\* Lines 61-64: io.Copy(file, data) writes the unread bytes of data.
StageWriteOk(t) ==
    /\ pc[t] = "stagewrite"
    /\ Op(t, "filewrite")
    /\ content' = [content EXCEPT ![file[t]] = @ \o data[t]]
    /\ data' = [data EXCEPT ![t] = <<>>]
    /\ pc' = [pc EXCEPT ![t] = "rights"]
    /\ UNCHANGED <<conn, calls, args, rest, diag, last, enc, prev, prevRet, rights, id, err, ret, file,
                   nextFile, fdnum, shm, fds, inbox>>

\* The file write fails after k bytes.
StageWriteFail(t) ==
    /\ pc[t] = "stagewrite"
    /\ Op(t, "filewrite")
    /\ \E k \in {0, Len(data[t]) - 1} :
          /\ content' = [content EXCEPT ![file[t]] = @ \o SubSeq(data[t], 1, k)]
          /\ data' = [data EXCEPT ![t] = SubSeq(@, k + 1, Len(@))]
    /\ Fail(t, "file write failed")
    /\ UNCHANGED <<conn, calls, args, rest, last, enc, prev, prevRet, rights, id, err, file,
                   nextFile, fdnum, shm, fds, inbox>>

\* Line 66: the descriptor number is read; the *os.File is not used again.
Rights(t) ==
    /\ pc[t] = "rights"
    /\ rights' = [rights EXCEPT ![t] = fdnum[file[t]]]
    /\ pc' = [pc EXCEPT ![t] = "sendmsg"]
    /\ UNCHANGED <<conn, calls, args, rest, data, diag, last, enc, prev, prevRet, err, ret,
                   file, ops, id, env>>

\* Lines 69-72: conn is not a *net.UnixConn.
SendMsgNonUnix(t) ==
    /\ pc[t] = "sendmsg"
    /\ conn # "UnixConn"
    /\ Fail(t, NonUnixText)
    /\ UNCHANGED <<conn, calls, args, rest, data, last, enc, prev, prevRet, rights, id, err, file, ops, env>>

\* Lines 73, 77: WriteMsgUnix sends an empty datagram carrying the file that
\* the descriptor number read at line 66 refers to now, or fails (always, if
\* that number is no longer open); its results are dropped and Send returns
\* nil.
SendMsgUnix(t, delivered) ==
    /\ pc[t] = "sendmsg"
    /\ conn = "UnixConn"
    /\ delivered => Referent(rights[t]) # 0
    /\ Op(t, "sendmsg")
    /\ inbox' = IF delivered
                THEN Append(inbox, [kind |-> "fd", body |-> <<>>, file |-> Referent(rights[t]),
                                    from |-> t, call |-> id[t]])
                ELSE inbox
    /\ Return(t, RetNil)
    /\ UNCHANGED <<conn, calls, args, rest, data, diag, last, enc, prev, prevRet, rights, id,
                   err, file, nextFile, fdnum, shm, content, fds>>

SendMsg(t) == SendMsgNonUnix(t) \/ \E delivered \in BOOLEAN : SendMsgUnix(t, delivered)

\* The *os.File of a staging file is reachable from line 57 to line 66 of
\* the Send that created it.
Reachable(f) == \E t \in Threads : file[t] = f /\ pc[t] \in {"unlink", "stagewrite", "rights"}

\* The runtime's finalizer of an unreachable *os.File closes its descriptor;
\* nothing in send.go closes one.
Finalize ==
    /\ \E f \in fds :
          /\ ~Reachable(f)
          /\ fds' = fds \ {f}
    /\ UNCHANGED <<conn, pc, calls, local, nextFile, fdnum, shm, content, inbox>>

\* ------------------------------------------------------------- specifications
Encode(t) == EncodePriority(t) \/ EncodeMessage(t) \/ EncodeField(t)

Fallback(t) ==
    \/ TempFileOk(t) \/ TempFileFail(t)
    \/ Unlink(t)
    \/ StageWriteOk(t) \/ StageWriteFail(t)
    \/ Rights(t)
    \/ SendMsg(t)

Next ==
    \/ \E t \in Callers : Send(t) \/ SendAgain(t) \/ Encode(t) \/ DirectWrite(t) \/ Fallback(t)
    \/ Finalize

Spec == Init /\ [][Next]_vars

\* The encoder alone: one Send, its arguments drawn from EncArgs, on a
\* working connection, followed up to the first io.Copy.
EncInit ==
    /\ conn = "UnixConn"
    /\ calls = 1
    /\ pc = [t \in Threads |-> IF t \in Callers THEN "priority" ELSE "idle"]
    /\ \E a \in EncArgs :
          /\ args = [t \in Threads |-> IF t \in Callers THEN a ELSE NoArgs]
          /\ rest = [t \in Threads |-> IF t \in Callers THEN DOMAIN a.vars ELSE {}]
    /\ data = [t \in Threads |-> <<>>]
    /\ diag = [t \in Threads |-> <<>>]
    /\ last = [t \in Threads |-> <<>>]
    /\ enc = [t \in Threads |-> Null]
    /\ prev = [t \in Threads |-> Null]
    /\ err = [t \in Threads |-> NoErr]
    /\ ret = [t \in Threads |-> <<>>]
    /\ file = [t \in Threads |-> 0]
    /\ ops = [t \in Threads |-> <<>>]
    /\ id = [t \in Threads |-> IF t \in Callers THEN 1 ELSE 0]
    /\ prevRet = [t \in Threads |-> <<>>]
    /\ rights = [t \in Threads |-> 0]
    /\ InitEnv

EncNext == \E t \in Callers : Encode(t)

EncSpec == EncInit /\ [][EncNext]_vars

\* Several threads, each calling Send once with arguments drawn from
\* ConcArgs, their steps interleaved.
ConcSend(t) == pc[t] = "idle" /\ \E a \in ConcArgs : Enter(t, a, FALSE)

ConcNext ==
    \/ \E t \in Threads : ConcSend(t) \/ Encode(t) \/ DirectWrite(t) \/ Fallback(t)
    \/ Finalize

SpecConc == Init /\ [][ConcNext]_vars

\* ------------------------------------------------------------- properties
Returned(t) == pc[t] = "done" /\ ret[t] # RetPanic
IsError(r) == Len(r) = 2 /\ r[1] = "journal error: "
\* The error Send returned is the latest line of the diagnostic stream.
Reported(t) == diag[t] # <<>> /\ diag[t][Len(diag[t])] = ret[t]
\* The daemon received the entry of thread t's current Send, as a datagram
\* body or as the descriptor of its staging file.
Delivered(t) ==
    \E i \in 1..Len(inbox) :
        /\ inbox[i].from = t
        /\ inbox[i].call = id[t]
        /\ \/ inbox[i].kind = "datagram" /\ inbox[i].body = enc[t]
           \/ inbox[i].kind = "fd" /\ inbox[i].file = file[t] /\ file[t] # 0
OverflowClass(e) == e.text \in {"EMSGSIZE", "ENOBUFS"}
Did(t, op) == \E i \in 1..Len(ops[t]) : ops[t][i] = op
Count(t, op) == Cardinality({i \in 1..Len(ops[t]) : ops[t][i] = op})

\* C1: a Send that has returned either returned nil, and then the daemon
\* received its entry (datagram body or descriptor), or returned an error
\* that it also wrote to the diagnostic stream; in particular a failed
\* descriptor send is reported and returned.
C1_FailuresReportedAndReturned ==
    \A t \in Threads :
        Returned(t) =>
            IF ret[t] = RetNil THEN Delivered(t)
            ELSE IsError(ret[t]) /\ Reported(t) /\ ~Delivered(t)

\* C2: when the initial connection attempt failed, Enabled() is false, every
\* Send has returned the not-connected error having made no system call,
\* the daemon has received nothing, no staging file was ever created, and
\* conn stays nil.
C2_DisabledStaysDisabled ==
    /\ [](conn = "nil" =>
            /\ ~Enabled
            /\ inbox = <<>> /\ nextFile = 1 /\ shm = {} /\ fds = {}
            /\ \A t \in Threads :
                  /\ ops[t] = <<>>
                  /\ pc[t] \in {"idle", "done"}
                  /\ pc[t] = "done" =>
                        ret[t] = journalError(NotConnectedText) /\ Reported(t))
    /\ [][conn = "nil" => conn' = "nil"]_vars

C2_Witness == conn = "nil" /\ calls = MaxSends /\ pc[1] = "done"

\* C3 as claimed: after an overflow-class failure of the direct write Send
\* succeeds, with the complete entry in the staging file.
C3_FallbackAlwaysSucceeds ==
    \A t \in Threads :
        (pc[t] = "done" /\ OverflowClass(err[t])) =>
            ret[t] = RetNil /\ file[t] # 0 /\ content[file[t]] = enc[t]

\* C3 amended: after an overflow-class failure of the direct write, once the
\* staging file has been created and written without error its content is
\* byte for byte the complete encoded entry, and Send returns nil on a Unix
\* connection; when creating or writing the file failed, Send reported and
\* returned that failure and handed the daemon nothing.
C3_StagedContentComplete ==
    \A t \in Threads :
        OverflowClass(err[t]) =>
            /\ pc[t] \in {"rights", "sendmsg"} => content[file[t]] = enc[t]
            /\ pc[t] = "done" =>
                  \/ /\ ret[t] = RetNil
                     /\ conn = "UnixConn"
                     /\ content[file[t]] = enc[t]
                  \/ /\ ret[t] = journalError(NonUnixText)
                     /\ conn # "UnixConn"
                     /\ content[file[t]] = enc[t]
                  \/ /\ ret[t] \in {journalError("tempfile failed"),
                                    journalError("file write failed")}
                     /\ Reported(t)
                     /\ ~Delivered(t)
                     /\ file[t] # 0 => content[file[t]] # enc[t]

C3_Witness ==
    /\ pc[1] = "done" /\ OverflowClass(err[1]) /\ ret[1] = RetNil
    /\ Delivered(1)
    /\ content[file[1]] = enc[1]
    /\ Len(enc[1]) > 20

\* ------------------------------------------------------------- encoder properties
\* Well-formed per the documentation quoted in validVarName.
WellFormed(name) ==
    /\ Len(name) > 0
    /\ name[1] # US
    /\ \A i \in 1..Len(name) : IsUpper(name[i]) \/ IsDigit(name[i]) \/ name[i] = US

\* The value of 8 bytes read as an unsigned little-endian integer.
LittleEndian(b) ==
    b[1] + 256 * (b[2] + 256 * (b[3] + 256 * b[4]))
    + (IF b[5] = 0 /\ b[6] = 0 /\ b[7] = 0 /\ b[8] = 0 THEN 0 ELSE 16777216 * 256)

\* b is the documented wire form of name and value.
IsWireForm(b, name, value) ==
    IF \E i \in 1..Len(value) : value[i] = NL
    THEN /\ Len(b) = Len(name) + 1 + 8 + Len(value) + 1
         /\ SubSeq(b, 1, Len(name)) = name
         /\ b[Len(name) + 1] = NL
         /\ LittleEndian(SubSeq(b, Len(name) + 2, Len(name) + 9)) = Len(value)
         /\ SubSeq(b, Len(name) + 10, Len(b) - 1) = value
         /\ b[Len(b)] = NL
    ELSE b = name \o <<EQ>> \o value \o <<NL>>

\* The bytes the latest appendVariable call of thread t appended.
Appended(t) == SubSeq(data[t], Len(last[t][1].w.buf) + 1, Len(data[t]))
KeptPrefix(t) == SubSeq(data[t], 1, Len(last[t][1].w.buf)) = last[t][1].w.buf
Warned(t) == Len(diag[t]) - Len(last[t][1].w.diag)

\* C4: every appendVariable call writes the malformed-name diagnostic
\* exactly when the name is not well-formed, never fails, and appends the
\* wire form of the pair whether or not the name is well-formed.
C4_DiagnosticExactlyForMalformed ==
    \A t \in Callers :
        last[t] # <<>> =>
            /\ ret[t] # RetPanic
            /\ Warned(t) = (IF WellFormed(last[t][1].name) THEN 0 ELSE 1)
            /\ KeptPrefix(t)
            /\ IsWireForm(Appended(t), last[t][1].name, last[t][1].value)

\* C6: for every name and value, appendVariable appends name=value\n when
\* the value has no newline, and otherwise name\n, the 8-byte little-endian
\* length of the value, and value\n.
C6_WireFormForEveryPair ==
    \A t \in Callers :
        last[t] # <<>> =>
            /\ ret[t] # RetPanic
            /\ KeptPrefix(t)
            /\ IsWireForm(Appended(t), last[t][1].name, last[t][1].value)

\* The part of C6 the code keeps: whenever appendVariable returns, it has
\* appended the wire form.
WireFormWhenAppended ==
    \A t \in Callers :
        (last[t] # <<>> /\ ret[t] # RetPanic) =>
            KeptPrefix(t) /\ IsWireForm(Appended(t), last[t][1].name, last[t][1].value)

\* Length of the wire form of a pair.
WireLen(name, value) ==
    Len(name) + Len(value) + (IF \E i \in 1..Len(value) : value[i] = NL THEN 10 ELSE 2)

RECURSIVE FieldsLen(_, _)
FieldsLen(m, keys) ==
    IF keys = {} THEN 0
    ELSE LET k == CHOOSE x \in keys : TRUE
         IN  WireLen(k, m[k]) + FieldsLen(m, keys \ {k})

\* C7: every encoded entry starts with the PRIORITY field, then the MESSAGE
\* field, and what follows is as long as the caller-supplied fields, whatever
\* the mapping holds.
C7_PriorityThenMessageFirst ==
    \A t \in Callers :
        enc[t] # Null =>
            LET a == args[t]
                n1 == WireLen(PRIORITY, Itoa(a.priority))
                n2 == WireLen(MESSAGE, a.message)
            IN  /\ Len(enc[t]) = n1 + n2 + FieldsLen(a.vars, DOMAIN a.vars)
                /\ IsWireForm(SubSeq(enc[t], 1, n1), PRIORITY, Itoa(a.priority))
                /\ IsWireForm(SubSeq(enc[t], n1 + 1, n1 + n2), MESSAGE, a.message)

C7_Witness ==
    /\ enc[1] # Null
    /\ DOMAIN args[1].vars = {PRIORITY, MESSAGE}
    /\ args[1].message = LongValue
    /\ args[1].priority = 10

\* ---- the documented grammar, read back
DecodeError == [name |-> Null, value |-> Null]

First(b, from, set) ==
    LET hits == {i \in from..Len(b) : b[i] \in set}
    IN  IF hits = {} THEN 0 ELSE CHOOSE i \in hits : \A j \in hits : i <= j

RECURSIVE Decode(_)
Decode(b) ==
    IF b = <<>> THEN <<>>
    ELSE LET stop == First(b, 1, {EQ, NL})
         IN  IF stop = 0 THEN <<DecodeError>>
             ELSE IF b[stop] = EQ
             THEN LET nl == First(b, stop + 1, {NL})
                  IN  IF nl = 0 THEN <<DecodeError>>
                      ELSE <<[name |-> SubSeq(b, 1, stop - 1),
                              value |-> SubSeq(b, stop + 1, nl - 1)]>>
                           \o Decode(SubSeq(b, nl + 1, Len(b)))
             ELSE IF Len(b) < stop + 8 THEN <<DecodeError>>
             ELSE LET n == LittleEndian(SubSeq(b, stop + 1, stop + 8))
                      end == stop + 8 + n + 1
                  IN  IF Len(b) < end \/ b[end] # NL THEN <<DecodeError>>
                      ELSE <<[name |-> SubSeq(b, 1, stop - 1),
                              value |-> SubSeq(b, stop + 9, end - 1)]>>
                           \o Decode(SubSeq(b, end + 1, Len(b)))

\* Decimal text read back as an integer.
RECURSIVE Atoi(_)
Atoi(s) ==
    IF s = <<>> THEN 0
    ELSE IF s[1] = MINUS THEN 0 - Atoi(Tail(s))
    ELSE 10 * Atoi(SubSeq(s, 1, Len(s) - 1)) + (s[Len(s)] - ZERO)

\* The order in which the caller supplied the fields of mapping m: one
\* order per mapping.
CallerOrder(m) ==
    CHOOSE s \in [1..Cardinality(DOMAIN m) -> DOMAIN m] :
        \A k \in DOMAIN m : \E i \in DOMAIN s : s[i] = k

\* C8: every Send encodes an entry, and decoding it by the documented
\* grammar gives back the priority, the message and the caller-supplied
\* fields in the caller's order.
C8_RoundTrip ==
    \A t \in Callers :
        (pc[t] \notin {"idle", "priority", "message", "fields"}) =>
            /\ enc[t] # Null
            /\ LET d == Decode(enc[t])
                   a == args[t]
                   o == CallerOrder(a.vars)
               IN  /\ Len(d) = 2 + Len(o)
                   /\ d[1].name = PRIORITY /\ Atoi(d[1].value) = a.priority
                   /\ d[2] = [name |-> MESSAGE, value |-> a.message]
                   /\ \A i \in 1..Len(o) :
                         d[2 + i] = [name |-> o[i], value |-> a.vars[o[i]]]

\* What of C8 the code keeps: an entry whose names are non-empty and free
\* of '=' and newline decodes to the priority, the message and the same set
\* of fields.
RoundTripAsSet ==
    \A t \in Callers :
        (enc[t] # Null /\ \A k \in DOMAIN args[t].vars :
                             k # <<>> /\ \A i \in 1..Len(k) : k[i] \notin {EQ, NL}) =>
            LET d == Decode(enc[t])
                a == args[t]
            IN  /\ Len(d) = 2 + Cardinality(DOMAIN a.vars)
                /\ d[1].name = PRIORITY /\ Atoi(d[1].value) = a.priority
                /\ d[2] = [name |-> MESSAGE, value |-> a.message]
                /\ {d[i] : i \in 3..Len(d)}
                   = {[name |-> k, value |-> a.vars[k]] : k \in DOMAIN a.vars}

\* ------------------------------------------------------------- transport properties
\* C5: a Send that repeats the arguments of the previous Send hands the
\* first io.Copy the same bytes as the previous Send did.
C5_SameArgumentsSameBytes ==
    \A t \in Threads : (prev[t] # Null /\ enc[t] # Null) => enc[t] = prev[t]

FallbackPcs == {"tempfile", "unlink", "stagewrite", "rights", "sendmsg"}
FallbackOps == {"tempfile", "unlink", "filewrite", "sendmsg"}

\* C9: Send is on the fallback path, or has made one of its system calls,
\* exactly when its direct write failed with EMSGSIZE or ENOBUFS; it writes
\* to the socket directly at most once; and when the direct write failed
\* with any other error, Send has made no other system call, has no staging
\* file, handed the daemon nothing, and reported and returned that error.
C9_FallbackIffOverflow ==
    \A t \in Threads :
        /\ (pc[t] \in FallbackPcs \/ file[t] # 0 \/ \E op \in FallbackOps : Did(t, op))
              <=> (Did(t, "write") /\ OverflowClass(err[t]))
        /\ Count(t, "write") <= 1
        /\ (err[t] # NoErr /\ ~OverflowClass(err[t])) =>
              /\ pc[t] = "done"
              /\ ops[t] = <<"write">>
              /\ ret[t] = journalError(err[t].text)
              /\ Reported(t)
              /\ ~Delivered(t)

C9_Witness ==
    /\ pc[1] = "done"
    /\ err[1].text = "ECONNREFUSED"
    /\ ops[1] = <<"write">>
    /\ ret[1] = journalError("ECONNREFUSED")

\* C10: a staging file has no name in /dev/shm from the moment tempFd has
\* returned it, so none is left behind once every Send has returned.
C10_NoStagingNameSurvives ==
    /\ \A t \in Threads :
          pc[t] \in {"stagewrite", "rights", "sendmsg"} => file[t] \notin shm
    /\ (\A t \in Threads : pc[t] \in {"idle", "done"}) => shm = {}

\* ------------------------------------------------------------- concurrency
\* C11: with several threads in Send, everything the daemon receives is one
\* whole entry of the Send that sent it: a datagram body is that Send's
\* encoded entry, a descriptor is that of the staging file that Send created
\* and wrote, holding that entry and nothing else; and no staging file is
\* transmitted by two Sends or belongs to two Sends.
C11_WholeUnitsOfOneEntry ==
    /\ \A i \in 1..Len(inbox) :
          LET e == inbox[i]
              t == e.from
          IN  e.call = id[t] =>
                 /\ e.kind = "datagram" => e.body = enc[t]
                 /\ e.kind = "fd" =>
                       /\ e.body = <<>>
                       /\ e.file = file[t]
                       /\ content[e.file] = enc[t]
    /\ \A i, j \in 1..Len(inbox) :
          (i # j /\ inbox[i].kind = "fd" /\ inbox[j].kind = "fd") =>
              inbox[i].file # inbox[j].file
    /\ \A t1, t2 \in Threads : (t1 # t2 /\ file[t1] # 0) => file[t1] # file[t2]

\* What of C11 the code keeps: datagram bodies are whole entries of their
\* Send, no two Sends share a staging file, and a descriptor whose number
\* still refers to the sender's staging file delivers that Send's entry.
WholeUnitsWhileDescriptorKept ==
    /\ \A i \in 1..Len(inbox) :
          LET e == inbox[i]
              t == e.from
          IN  e.call = id[t] =>
                 /\ e.kind = "datagram" => e.body = enc[t]
                 /\ (e.kind = "fd" /\ e.file = file[t]) => content[e.file] = enc[t]
    /\ \A t1, t2 \in Threads : (t1 # t2 /\ file[t1] # 0) => file[t1] # file[t2]

IsDecimal(s) ==
    LET d == IF s # <<>> /\ s[1] = MINUS THEN Tail(s) ELSE s
    IN  /\ d # <<>>
        /\ \A i \in 1..Len(d) : IsDigit(d[i])
        /\ Len(d) > 1 => d[1] # ZERO
        /\ (d = <<ZERO>>) => d = s

\* C13: the named levels Emergency .. Debug are 0 .. 7 in that order, and
\* once the PRIORITY field is appended the buffer starts with PRIORITY=,
\* the decimal text of the priority's integer value and a newline, for every
\* priority, also one outside 0 .. 7.
C13_PriorityAsDecimalText ==
    /\ <<PriEmerg, PriAlert, PriCrit, PriErr, PriWarning, PriNotice, PriInfo, PriDebug>>
       = <<0, 1, 2, 3, 4, 5, 6, 7>>
    /\ \A t \in Callers :
          pc[t] \notin {"idle", "priority"} =>
              LET n == Len(PRIORITY)
                  nl == First(data[t], 1, {NL})
                  txt == SubSeq(data[t], n + 2, nl - 1)
              IN  /\ nl > n + 2
                  /\ SubSeq(data[t], 1, n) = PRIORITY
                  /\ data[t][n + 1] = EQ
                  /\ IsDecimal(txt)
                  /\ Atoi(txt) = args[t].priority

C13_Witness ==
    /\ pc[1] = "message"
    /\ args[1].priority = 10
    /\ data[1] = PRIORITY \o <<EQ, 49, 48, NL>>

\* ------------------------------------------------------------- order of operations
SendOrder == <<"write", "tempfile", "unlink", "filewrite", "sendmsg">>

\* The order of the system calls of one Send, and what has happened before
\* the descriptor send.
OrderOfSocketOperations ==
    \A t \in Threads :
        /\ Len(ops[t]) <= Len(SendOrder)
        /\ ops[t] = SubSeq(SendOrder, 1, Len(ops[t]))
        /\ Did(t, "sendmsg") =>
              /\ OverflowClass(err[t])
              /\ file[t] # 0
              /\ content[file[t]] = enc[t]
              /\ conn = "UnixConn"
        /\ (pc[t] = "done" /\ conn = "OtherConn" /\ Did(t, "filewrite")
               /\ ret[t] # journalError("file write failed")) =>
              /\ ret[t] = journalError(NonUnixText)
              /\ Reported(t)
              /\ ~Did(t, "sendmsg")
        /\ \A i \in 1..Len(inbox) :
              (inbox[i].from = t /\ inbox[i].call = id[t]) =>
                  /\ inbox[i].kind = "datagram" =>
                        inbox[i].body = enc[t] /\ ops[t] = <<"write">>
                  /\ inbox[i].kind = "fd" =>
                        inbox[i].body = <<>> /\ ops[t] = SendOrder
        /\ Cardinality({i \in 1..Len(inbox) : inbox[i].from = t /\ inbox[i].call = id[t]}) <= 1

\* C14: one Send makes its system calls in the fixed order: one direct write
\* of the whole buffer first; the descriptor datagram at most once, only
\* after an overflow-class failure of that write and after the staging file
\* was created and filled with the whole buffer; that datagram has an empty
\* body and carries the descriptor of the Send's own staging file; on a
\* connection that cannot carry descriptors none is sent and Send fails.
C14_FixedOrderOwnDescriptor ==
    /\ OrderOfSocketOperations
    /\ \A i \in 1..Len(inbox) :
          (inbox[i].kind = "fd" /\ inbox[i].call = id[inbox[i].from]) =>
              inbox[i].file = file[inbox[i].from]

\* ------------------------------------------------------------- descriptors
\* C15: the descriptor read at line 66 is open and refers to the Send's own
\* staging file until it is transmitted, and once Send has returned the
\* process holds no open descriptor of that Send's staging file.
C15_DescriptorHeldOnlyDuringSend ==
    \A t \in Threads :
        /\ pc[t] = "sendmsg" => Referent(rights[t]) = file[t]
        /\ (pc[t] = "done" /\ file[t] # 0) => file[t] \notin fds

====
